---------------------------- MODULE Spec2Model ----------------------------
(***************************************************************************)
(* Model of the Marginal v1 LP backtest runner                             *)
(* (src/src/marginal_simulations_2024_02/runners/lp.py, utils.py).         *)
(*                                                                         *)
(* The runner (MarginalV1LPRunner) is driven block by block: setup and     *)
(* init_mocks_state at the start block, then one update_strategy call per  *)
(* block.  update_strategy is a straight-line sequence of steps; each step *)
(* is one action here and the program counter pc says which step comes     *)
(* next.  The mock contracts (pool, manager, quoter, router, arbitrageur)  *)
(* are the environment: the model keeps the part of their state the runner *)
(* reads (pool liquidity, price, locked liquidity, the manager's           *)
(* positions) and lets the values the runner cannot determine (whether a   *)
(* position is safe, the reference data of a block, a reverted call) be    *)
(* chosen nondeterministically.                                            *)
(*                                                                         *)
(* Fixed-point resolutions are scaled down so that every intermediate      *)
(* product fits TLC's 32-bit integers: Q96 stands for 1 << 96 and Q128 for *)
(* 1 << 128; the formulas are the source's.  Float parameters are modelled *)
(* as exact rationals; the values used (quarters, 1/400) and the small     *)
(* integers they multiply are computed exactly by IEEE doubles too.        *)
(***************************************************************************)
EXTENDS Integers, Sequences, FiniteSets, TLC

(***************************************************************************)
(* Program constants (scaled) and bounds of the model.                     *)
(***************************************************************************)
Q96 == 1024               \* 1 << 96 in utils.py, scaled down
Q128 == 1024              \* 1 << 128 in lp.py simulate_swaps, scaled down
MAINTENANCE_UNIT == 4     \* constants.MAINTENANCE_UNIT (1e6), scaled so that
maintenance == 1          \* maintenance / MAINTENANCE_UNIT = 250000 / 1e6
FEE_UNIT == 1000          \* constants.FEE_UNIT (1e6), scaled so that
mrglv1_fee == 1           \* pool.fee() / FEE_UNIT = 0.1%
UNIT == 4                 \* denominator of utilization and skew (quarters)
TolNum == 1               \* sqrt_price_tol = 0.0025 = TolNum / TolDen
TolDen == 400
LeverageNum == 2          \* leverage = LeverageNum / LeverageDen
LeverageDen == 1

MaxUpdates == 3           \* update_strategy calls explored
blocks_held == 2          \* holding period, in blocks
Step == 1                 \* block step of the driver loop
StartBlock == 10          \* first block of a run
InitLiquidity == 400      \* runner.liquidity, minted at initialisation
StartSqrtPriceX96 == 1536 \* reference sqrt price at the start block (1.5 Q96)
RefLiquidity == 2048      \* liquidity of the reference pool
SecondsPerBlock == 12     \* spacing of the reference chain's timestamps

Slots == {0, 1}
\* (utilization, skew) pairs, in quarters, accepted by the validators
Configs == { <<2, 0>>, <<2, 4>>, <<2, -4>>, <<0, 0>>, <<4, 0>>, <<4, 4>>, <<4, -4>> }

\* the runner's parameters as the model keeps them: utilization, skew,
\* leverage and rel_margin_above_safe_min in quarters, sqrt_price_tol in
\* units of 1 / TolDen
Config(utilization, skew, leverage, rel_margin, held, tol) ==
    [ utilization |-> utilization, skew |-> skew, leverage |-> leverage,
      rel_margin_above_safe_min |-> rel_margin, blocks_held |-> held,
      sqrt_price_tol |-> tol ]

\* leverage = LeverageNum / LeverageDen, in quarters
Leverage == (LeverageNum * UNIT) \div LeverageDen
\* reference sqrt prices a later block may show: within and outside tolerance
RefSqrtPrices == { StartSqrtPriceX96 + 1, StartSqrtPriceX96 + 6 }
\* growth of the reference fee accumulators (token0, token1) over one step
FeeGrowthSteps == { <<0, 1>>, <<8, 8>> }

(***************************************************************************)
(* Integer helpers.                                                        *)
(***************************************************************************)
Abs(x) == IF x < 0 THEN -x ELSE x

\* Python int(x / y) for y > 0: truncation toward zero
TruncDiv(x, y) == IF x >= 0 THEN x \div y ELSE -((-x) \div y)

RECURSIVE IsqrtBetween(_, _, _)
IsqrtBetween(n, lo, hi) ==
    IF lo >= hi THEN lo
    ELSE LET mid == (lo + hi + 1) \div 2
         IN  IF mid * mid <= n THEN IsqrtBetween(n, mid, hi)
                               ELSE IsqrtBetween(n, lo, mid - 1)

\* int(sqrt(n)) for n >= 0 (exact below 2^52, where the model stays)
Isqrt(n) == IsqrtBetween(n, 0, 46340)

(***************************************************************************)
(* utils.py: the closed-form pool math.  Python's // is floor division,    *)
(* as \div is.  A function that would raise (ZeroDivisionError, or math    *)
(* domain error for the root of a negative number) has a ...Raises         *)
(* predicate; its value operator is only applied where that is false.      *)
(***************************************************************************)
\* mutant: amount1 computed with amount0's formula
get_mrglv1_amounts_for_liquidity_same(sqrt_price_x96, liquidity) ==
    << (liquidity * Q96) \div sqrt_price_x96,
       (liquidity * Q96) \div sqrt_price_x96 >>

get_mrglv1_amounts_for_liquidity(sqrt_price_x96, liquidity) ==
    << (liquidity * Q96) \div sqrt_price_x96,
       (liquidity * sqrt_price_x96) \div Q96 >>

\* mutant: the maintenance factor inverted
SqrtUnderInverted(liquidity, liquidity_delta, m) ==
    LET prod == (liquidity_delta * (liquidity - liquidity_delta) * (MAINTENANCE_UNIT + m))
                    \div MAINTENANCE_UNIT
    IN  liquidity * liquidity - 4 * prod

SqrtUnder(liquidity, liquidity_delta, m) ==
    LET prod == (liquidity_delta * (liquidity - liquidity_delta) * MAINTENANCE_UNIT)
                    \div (MAINTENANCE_UNIT + m)
    IN  liquidity * liquidity - 4 * prod

NextOpenRaises(liquidity, sqrt_price_x96, liquidity_delta, zero_for_one, m) ==
    LET under == SqrtUnder(liquidity, liquidity_delta, m)
    IN  \/ under < 0
        \/ ~zero_for_one /\ 2 * (liquidity - liquidity_delta) = 0
        \/ zero_for_one /\ liquidity + Isqrt(under) = 0

\* mutant: the other root of the quadratic taken when not zero_for_one
get_mrglv1_sqrt_price_x96_next_open_other_root(liquidity, sqrt_price_x96, liquidity_delta, zero_for_one, m) ==
    LET root == Isqrt(SqrtUnder(liquidity, liquidity_delta, m))
    IN  IF ~zero_for_one
        THEN (sqrt_price_x96 * (liquidity - root)) \div (2 * (liquidity - liquidity_delta))
        ELSE (sqrt_price_x96 * 2 * (liquidity - liquidity_delta)) \div (liquidity + root)

get_mrglv1_sqrt_price_x96_next_open(liquidity, sqrt_price_x96, liquidity_delta, zero_for_one, m) ==
    LET root == Isqrt(SqrtUnder(liquidity, liquidity_delta, m))
    IN  IF ~zero_for_one
        THEN (sqrt_price_x96 * (liquidity + root)) \div (2 * (liquidity - liquidity_delta))
        ELSE (sqrt_price_x96 * 2 * (liquidity - liquidity_delta)) \div (liquidity + root)

get_mrglv1_insurances(liquidity, sqrt_price_x96, sqrt_price_x96_next, liquidity_delta, zero_for_one) ==
    LET prod == IF ~zero_for_one
                THEN ((liquidity - liquidity_delta) * sqrt_price_x96_next) \div sqrt_price_x96
                ELSE ((liquidity - liquidity_delta) * sqrt_price_x96) \div sqrt_price_x96_next
    IN  << ((liquidity - prod) * Q96) \div sqrt_price_x96,
           ((liquidity - prod) * sqrt_price_x96) \div Q96 >>

get_mrglv1_debts(sqrt_price_x96_next, liquidity_delta, insurance0, insurance1) ==
    << (liquidity_delta * Q96) \div sqrt_price_x96_next - insurance0,
       (liquidity_delta * sqrt_price_x96_next) \div Q96 - insurance1 >>

\* get_mrglv1_size_from_liquidity_delta raises: in next_open, or dividing by
\* sqrt_price_x96 or by a next price of zero
SizeRaises(liquidity, sqrt_price_x96, liquidity_delta, zero_for_one, m) ==
    \/ NextOpenRaises(liquidity, sqrt_price_x96, liquidity_delta, zero_for_one, m)
    \/ sqrt_price_x96 = 0
    \/ get_mrglv1_sqrt_price_x96_next_open(liquidity, sqrt_price_x96,
                                           liquidity_delta, zero_for_one, m) = 0

get_mrglv1_size_from_liquidity_delta(liquidity, sqrt_price_x96, liquidity_delta, zero_for_one, m) ==
    LET next == get_mrglv1_sqrt_price_x96_next_open(liquidity, sqrt_price_x96,
                                                    liquidity_delta, zero_for_one, m)
        ins  == get_mrglv1_insurances(liquidity, sqrt_price_x96, next,
                                      liquidity_delta, zero_for_one)
        debt == get_mrglv1_debts(next, liquidity_delta, ins[1], ins[2])
    IN  IF zero_for_one
        THEN (debt[2] * (Q96 * Q96)) \div (next * sqrt_price_x96)
        ELSE (debt[1] * (next * sqrt_price_x96)) \div (Q96 * Q96)

\* the debts the pool books for a position opened with liquidity_delta, by the
\* closed form that get_mrglv1_size_from_liquidity_delta composes (utils.py 82-101)
DebtsAtOpen(liquidity, sqrt_price_x96, liquidity_delta, zero_for_one, m) ==
    LET next == get_mrglv1_sqrt_price_x96_next_open(liquidity, sqrt_price_x96,
                                                    liquidity_delta, zero_for_one, m)
        ins  == get_mrglv1_insurances(liquidity, sqrt_price_x96, next,
                                      liquidity_delta, zero_for_one)
    IN  get_mrglv1_debts(next, liquidity_delta, ins[1], ins[2])

\* utils.get_mrglv1_liquidity_sqrt_price_x96_from_reserves (first component):
\* the inverse of get_mrglv1_amounts_for_liquidity, L = sqrt(reserve0 * reserve1)
LiquidityFromReserves(reserve0, reserve1) == Isqrt(reserve0 * reserve1)

(***************************************************************************)
(* State.                                                                  *)
(***************************************************************************)
VARIABLES
    cfg,        \* runner parameters: [utilization, skew], in quarters
    pc,         \* "new", "idle", a step of update_strategy, or "aborted"
    runs,       \* backtest runs started on this runner instance
    number,     \* block number of the current update
    updates,    \* update_strategy calls started
    state,      \* reference state of the current block (get_refs_state),
                \* also what set_mocks_state puts in the mock univ3 pool
    pool,       \* mock Marginal v1 pool: liquidity, sqrtPriceX96, liquidityLocked
    positions,  \* mock manager's positions; the token id is the index
    runner,     \* the runner's private fields
    mined,      \* seconds mined by chain.mine in this run
    log,        \* steps and transactions of the current update, in order
    pre,        \* runner fields and reference data when the update began
    seen,       \* per slot: what the resolve step of this update read
    opened,     \* per slot: what the open step of this update computed
    file,       \* the csv file at the output path: exists, header lines, rows
    call        \* a call of one of the pure functions: arguments and outcome

vars == << cfg, pc, runs, number, updates, state, pool, positions, runner,
           mined, log, pre, seen, opened, file, call >>

\* nothing read or computed for a slot yet in this update
NoSlotInfo ==
    [s \in Slots |-> [done |-> FALSE, branch |-> "none", safe |-> TRUE, due |-> FALSE,
                      token_id |-> -1, size |-> 0, liquidity_delta |-> 0,
                      total_liquidity |-> 0, liquidity_before |-> 0,
                      liquidity_after |-> 0, liquidityLocked |-> 0,
                      sqrt_price_x96 |-> 0]]

\* class-level defaults of MarginalV1LPRunner (lp.py 33-65)
RunnerDefaults ==
    [ token_ids |-> [s \in Slots |-> -1],
      blocks_settle |-> [s \in Slots |-> -1],
      sizes_outstanding |-> [s \in Slots |-> 0],
      positions_liquidated_cumulative |-> [s \in Slots |-> 0],
      positions_settled_cumulative |-> [s \in Slots |-> 0],
      sizes_liquidated_cumulative |-> [s \in Slots |-> 0],
      sizes_settled_cumulative |-> [s \in Slots |-> 0],
      net_liquidity_liquidated_cumulative |-> [s \in Slots |-> 0],
      net_liquidity_settled_cumulative |-> [s \in Slots |-> 0],
      last_univ3_fee_growth_global_x128 |-> << -1, -1 >>,
      last_univ3_observation1 |-> -1,
      net_liquidity_swap_fees_cumulative |-> 0,
      net_liquidity_position_fees_cumulative |-> 0 ]

\* no file at the output path
NoFile == [exists |-> FALSE, headers |-> 0, rows |-> << >>]

\* a file an earlier backtest left at the same path: its header and one row
EarlierFile == [exists |-> TRUE, headers |-> 1, rows |-> << [run |-> 0, number |-> StartBlock + Step] >>]

\* a response of the provider to one query: its outcome ("ok",
\* "provider_error" for a ProviderError, "error" for any other exception) and
\* the value returned when the outcome is "ok"
Response(outcome, value) == [outcome |-> outcome, value |-> value]

\* the queries of get_refs_state lines 371-390, none made
NoResponses ==
    [ observe_ago |-> Response("ok", 0), prior_timestamp |-> Response("ok", 0),
      observe_prior |-> Response("ok", 0), slot0_tick |-> Response("ok", 0) ]

\* no pure function called
NoCall ==
    [ fn |-> "none", liquidity |-> 0, liquidityLocked |-> 0, sqrt_price_x96 |-> 0,
      liquidity_delta |-> 0, zero_for_one |-> FALSE, utilization |-> 0,
      utilization2 |-> 0, skew |-> 0, raised |-> FALSE, result |-> << 0, 0 >>,
      result2 |-> << 0, 0 >>,
      maintenance |-> 0, under |-> 0, root |-> 0,
      number |-> 0, seconds_ago |-> 0, provider |-> NoResponses, fallback |-> FALSE,
      echo |-> << >>, observation0 |-> << >> ]

\* reference data of the start block
FeeGrowthStart == 16
StartState ==
    [ sqrtPriceX96 |-> StartSqrtPriceX96,
      liquidity |-> RefLiquidity,
      fee_growth_global_x128 |-> << FeeGrowthStart, FeeGrowthStart >>,
      observation1 |-> SecondsPerBlock * StartBlock ]

Init ==
    /\ cfg \in { Config(c[1], c[2], Leverage, 0, blocks_held, TolNum) : c \in Configs }
    /\ pc = "new"
    /\ runs = 0
    /\ number = StartBlock
    /\ updates = 0
    /\ state = StartState
    /\ pool = [liquidity |-> 0, sqrtPriceX96 |-> 0, liquidityLocked |-> 0]
    /\ positions = << >>
    /\ runner = RunnerDefaults
    /\ mined = 0
    /\ log = << >>
    /\ pre = [runner |-> RunnerDefaults, state |-> StartState, file |-> NoFile]
    /\ seen = NoSlotInfo
    /\ opened = NoSlotInfo
    /\ file \in { NoFile, EarlierFile }
    /\ call = NoCall

(***************************************************************************)
(* The environment: what the mock contracts do to the state the runner     *)
(* reads.  Fee income of the pool is a fixed small amount of liquidity per *)
(* trade; a liquidation returns less liquidity than was locked and a       *)
(* settlement more.                                                        *)
(***************************************************************************)
ArbFeeLiquidity == 1      \* liquidity the pool gains from an arbitrage trade
SwapFeeLiquidity == 1     \* liquidity the pool gains from the two fee swaps
OpenFeeLiquidity == 1     \* liquidity the pool gains from fees of an open
LiquidationLoss == 1      \* liquidity the pool loses net on a liquidation
SettleGain == 1           \* liquidity the pool gains net on a settlement

Entry(op, slot) == [op |-> op, slot |-> slot, amount |-> 0]

\* a router swap with its input amount
SwapEntry(op, amount) == [op |-> op, slot |-> -1, amount |-> amount]

UpdateSteps == << "arb1", "resolve0", "resolve1", "open0", "open1",
                  "swaps", "arb2", "snapshot" >>
InUpdate == pc \in { UpdateSteps[k] : k \in 1..Len(UpdateSteps) }

\* mutant: the fee swaps moved before the open loop
NextStepSwapsBeforeOpen(p) ==
    LET order == << "arb1", "resolve0", "resolve1", "swaps", "open0", "open1",
                    "arb2", "snapshot" >>
        k == CHOOSE j \in 1..Len(order) : order[j] = p
    IN  IF k = Len(order) THEN "record" ELSE order[k + 1]

\* mutant: the open loop run over slot 1 first
NextStepOpenOneFirst(p) ==
    LET order == << "arb1", "resolve0", "resolve1", "open1", "open0", "swaps",
                    "arb2", "snapshot" >>
        k == CHOOSE j \in 1..Len(order) : order[j] = p
    IN  IF k = Len(order) THEN "record" ELSE order[k + 1]

\* update_strategy is straight-line code: the step after step p; when it
\* returns, the driver records the block
NextStep(p) ==
    LET k == CHOOSE j \in 1..Len(UpdateSteps) : UpdateSteps[j] = p
    IN  IF k = Len(UpdateSteps) THEN "record" ELSE UpdateSteps[k + 1]

\* mutant: the exception is caught and the block is recorded all the same
AfterExceptionCaught(p) == "record"

\* update_strategy has no try/except: an exception raised in step p leaves
\* it, and the driver loop, at once
AfterException(p) == "aborted"

Timestamp(n) == SecondsPerBlock * n

(***************************************************************************)
(* setup and init_mocks_state at the start block: fresh mocks, the pool    *)
(* initialised at the reference price with the runner's liquidity, and the *)
(* reference fee accumulators stored.  No other runner field is written.   *)
(***************************************************************************)
\* mutant: the start block's observation stored at initialisation
init_mocks_state_stores_observation(r, st) ==
    [r EXCEPT !.last_univ3_fee_growth_global_x128 = st.fee_growth_global_x128,
              !.last_univ3_observation1 = st.observation1]

\* lp.py 401-498: of the runner's fields only the fee growth is written
init_mocks_state(r, st) ==
    [r EXCEPT !.last_univ3_fee_growth_global_x128 = st.fee_growth_global_x128]

StartRun ==
    /\ runs' = runs + 1
    /\ number' = StartBlock
    /\ state' = StartState
    /\ pool' = [liquidity |-> InitLiquidity,
                sqrtPriceX96 |-> StartState.sqrtPriceX96,
                liquidityLocked |-> 0]
    /\ positions' = << >>
    /\ runner' = init_mocks_state(runner, StartState)
    /\ mined' = 0
    /\ log' = << >>
    /\ seen' = NoSlotInfo
    /\ opened' = NoSlotInfo
    /\ pc' = "idle"
    /\ UNCHANGED << cfg, updates, call >>

\* scripts/backtester.py 66-69: a file already at the path is removed
RemoveIfExists(f) == IF f.exists THEN NoFile ELSE f

\* scripts/backtester.py main, after the runner is constructed
Backtest ==
    /\ pc = "new"
    /\ file' = RemoveIfExists(file)
    /\ pre' = [runner |-> runner, state |-> StartState, file |-> RemoveIfExists(file)]
    /\ StartRun

(***************************************************************************)
(* update_strategy, lines 536-547: the next block's reference state is     *)
(* fetched and set on the mock univ3 pool, the chain is mined forward      *)
(* unless no observation was stored yet, and the observation is stored.    *)
(***************************************************************************)
\* mutant: the chain mined in the first update too
MinesTimeAlways(last_observation1) == TRUE

\* line 536
MinesTime(last_observation1) == last_observation1 # -1

BeginUpdate ==
    /\ pc = "idle"
    /\ updates < MaxUpdates
    /\ \E price \in RefSqrtPrices, g \in FeeGrowthSteps :
         LET n  == number + Step
             st == [ sqrtPriceX96 |-> price,
                     liquidity |-> RefLiquidity,
                     fee_growth_global_x128 |->
                         << state.fee_growth_global_x128[1] + g[1],
                            state.fee_growth_global_x128[2] + g[2] >>,
                     observation1 |-> Timestamp(n) ]
             mines == MinesTime(runner.last_univ3_observation1)
             dt == st.observation1 - runner.last_univ3_observation1
         IN  /\ number' = n
             /\ state' = st
             /\ mined' = IF mines THEN mined + dt ELSE mined
             /\ log' = IF mines THEN << Entry("mine", -1) >> ELSE << >>
             /\ runner' = [runner EXCEPT !.last_univ3_observation1 = st.observation1]
    /\ pre' = [runner |-> runner, state |-> state, file |-> file]
    /\ seen' = NoSlotInfo
    /\ opened' = NoSlotInfo
    /\ updates' = updates + 1
    /\ pc' = "arb1"
    /\ UNCHANGED << cfg, runs, pool, positions, file, call >>

(***************************************************************************)
(* arb_pools (lp.py 183-235).                                              *)
(***************************************************************************)
\* mutant: abs() dropped from the comparison
ArbRequiredNoAbs(univ3_sqrt_price_x96, mrglv1_sqrt_price_x96) ==
    (univ3_sqrt_price_x96 - mrglv1_sqrt_price_x96) * TolDen
        > cfg.sqrt_price_tol * mrglv1_sqrt_price_x96

\* abs(univ3 / mrglv1 - 1) > sqrt_price_tol, in exact rationals
ArbRequired(univ3_sqrt_price_x96, mrglv1_sqrt_price_x96) ==
    Abs(univ3_sqrt_price_x96 - mrglv1_sqrt_price_x96) * TolDen
        > cfg.sqrt_price_tol * mrglv1_sqrt_price_x96

\* arbitrageur.execute: the pool price is moved onto the reference price
ArbExecute(p, univ3_sqrt_price_x96) ==
    [p EXCEPT !.sqrtPriceX96 = univ3_sqrt_price_x96,
              !.liquidity = @ + ArbFeeLiquidity]

arb_pools ==
    /\ pc \in {"arb1", "arb2"}
    /\ IF ArbRequired(state.sqrtPriceX96, pool.sqrtPriceX96)
       THEN LET after == ArbExecute(pool, state.sqrtPriceX96)
            IN  /\ pool' = after
                /\ runner' = [runner EXCEPT !.net_liquidity_swap_fees_cumulative =
                                                @ + (after.liquidity - pool.liquidity)]
                /\ log' = log \o << Entry("arb_pools", -1), Entry("execute", -1) >>
       ELSE /\ UNCHANGED << pool, runner >>
            /\ log' = Append(log, Entry("arb_pools", -1))
    /\ pc' = NextStep(pc)
    /\ UNCHANGED << cfg, runs, number, updates, state, positions, mined,
                    pre, seen, opened, file, call >>

(***************************************************************************)
(* update_strategy, lines 552-616: liquidate or settle outstanding         *)
(* positions.                                                              *)
(***************************************************************************)
\* mutant: the settle-due test made before the safety test
ResolveBranchSettleFirst(safe, n, block_settle) ==
    IF n >= block_settle THEN "burn"
    ELSE IF ~safe THEN "liquidate"
    ELSE "hold"

\* mutant: a safe position settled one block before it is due
ResolveBranchSettleEarly(safe, n, block_settle) ==
    IF ~safe THEN "liquidate"
    ELSE IF n + 1 >= block_settle THEN "burn"
    ELSE "hold"

\* the terminal transition lines 571 and 592 choose for an occupied slot
ResolveBranch(safe, n, block_settle) ==
    IF ~safe THEN "liquidate"
    ELSE IF n >= block_settle THEN "burn"
    ELSE "hold"

\* pool.liquidate / manager.burn: the locked liquidity returns to the pool,
\* net of what the close cost or earned the pool
PoolAfterClose(p, position, net) ==
    [p EXCEPT !.liquidity = @ + position.liquidityLocked + net,
              !.liquidityLocked = @ - position.liquidityLocked]

\* mutant: the liquidity returned taken for the net liquidity
NetLiquidityGross(mrglv1_state_before, mrglv1_state_after, pposition) ==
    mrglv1_state_after.liquidity - mrglv1_state_before.liquidity

\* lines 581-582 and 609-610
NetLiquidity(mrglv1_state_before, mrglv1_state_after, pposition) ==
    LET liquidity_returned == mrglv1_state_after.liquidity - mrglv1_state_before.liquidity
    IN  liquidity_returned - pposition.liquidityLocked

\* mutant: the slot is not emptied after the liquidation
RecordLiquidatedKeepsToken(r, i, position, net_liquidity) ==
    [r EXCEPT !.positions_liquidated_cumulative[i] = @ + 1,
              !.sizes_liquidated_cumulative[i] = @ + position.size,
              !.net_liquidity_liquidated_cumulative[i] = @ + net_liquidity]

\* lines 587-590
RecordLiquidated(r, i, position, net_liquidity) ==
    [r EXCEPT !.token_ids[i] = -1,
              !.positions_liquidated_cumulative[i] = @ + 1,
              !.sizes_liquidated_cumulative[i] = @ + position.size,
              !.net_liquidity_liquidated_cumulative[i] = @ + net_liquidity]

\* mutant: the size added to the count
RecordSettledCountsSize(r, i, position, net_liquidity) ==
    [r EXCEPT !.token_ids[i] = -1,
              !.positions_settled_cumulative[i] = @ + position.size,
              !.sizes_settled_cumulative[i] = @ + position.size,
              !.net_liquidity_settled_cumulative[i] = @ + net_liquidity]

\* mutant: the settled metrics of the slot written a second time
RecordSettledTwice(r, i, position, net_liquidity) ==
    [r EXCEPT !.token_ids[i] = -1,
              !.positions_settled_cumulative[i] = @ + 1 + 1,
              !.sizes_settled_cumulative[i] = @ + position.size + position.size,
              !.net_liquidity_settled_cumulative[i] = @ + net_liquidity + net_liquidity]

\* lines 613-616
RecordSettled(r, i, position, net_liquidity) ==
    [r EXCEPT !.token_ids[i] = -1,
              !.positions_settled_cumulative[i] = @ + 1,
              !.sizes_settled_cumulative[i] = @ + position.size,
              !.net_liquidity_settled_cumulative[i] = @ + net_liquidity]

ResolveStep(i) == IF i = 0 THEN "resolve0" ELSE "resolve1"

Resolve(i) ==
    /\ pc = ResolveStep(i)
    /\ LET token_id == runner.token_ids[i]
       IN  IF token_id = -1
           THEN UNCHANGED << pool, positions, runner, log, seen >>
           ELSE \* manager.positions(token_id) reverts for an id it never minted
                /\ token_id \in 1..Len(positions)
                /\ \E safe \in BOOLEAN :
                     LET position == positions[token_id]
                         branch == ResolveBranch(safe, number, runner.blocks_settle[i])
                         after == PoolAfterClose(pool, position,
                                      IF branch = "liquidate" THEN -LiquidationLoss
                                                              ELSE SettleGain)
                         net_liquidity == NetLiquidity(pool, after, position)
                     IN  /\ seen' = [seen EXCEPT ![i] =
                                       [@ EXCEPT !.done = TRUE, !.branch = branch,
                                                 !.safe = safe,
                                                 !.due = (number >= runner.blocks_settle[i]),
                                                 !.token_id = token_id,
                                                 !.size = position.size,
                                                 !.liquidityLocked = position.liquidityLocked,
                                                 !.liquidity_before = pool.liquidity,
                                                 !.liquidity_after =
                                                     IF branch = "hold" THEN pool.liquidity
                                                     ELSE after.liquidity]]
                         /\ CASE branch = "liquidate" ->
                                   /\ pool' = after
                                   /\ positions' = [positions EXCEPT ![token_id].status = "liquidated"]
                                   /\ runner' = RecordLiquidated(runner, i, position, net_liquidity)
                              [] branch = "burn" ->
                                   /\ pool' = after
                                   /\ positions' = [positions EXCEPT ![token_id].status = "burned"]
                                   /\ runner' = RecordSettled(runner, i, position, net_liquidity)
                              [] OTHER ->
                                   UNCHANGED << pool, positions, runner >>
                         /\ log' = Append(log, Entry(branch, i))
    /\ pc' = NextStep(pc)
    /\ UNCHANGED << cfg, runs, number, updates, state, mined, pre, opened, file, call >>

(***************************************************************************)
(* update_strategy, lines 618-691: open a position for every empty slot.   *)
(***************************************************************************)
\* mutant: the division by 2 dropped
calculate_position_liquidity_deltas_unhalved(p, utilization, skew) ==
    LET total_liquidity == p.liquidity + p.liquidityLocked
    IN  << (total_liquidity * utilization * (UNIT + skew)) \div (UNIT * UNIT),
           (total_liquidity * utilization * (UNIT - skew)) \div (UNIT * UNIT) >>

\* mutant: the signs of the skew exchanged between the two sides
calculate_position_liquidity_deltas_swapped(p, utilization, skew) ==
    LET total_liquidity == p.liquidity + p.liquidityLocked
    IN  << (total_liquidity * utilization * (UNIT - skew)) \div (2 * UNIT * UNIT),
           (total_liquidity * utilization * (UNIT + skew)) \div (2 * UNIT * UNIT) >>

\* mutant: the idle share (1 - utilization) used for the utilization
calculate_position_liquidity_deltas_idle(p, utilization, skew) ==
    LET total_liquidity == p.liquidity + p.liquidityLocked
    IN  << (total_liquidity * (UNIT - utilization) * (UNIT + skew)) \div (2 * UNIT * UNIT),
           (total_liquidity * (UNIT - utilization) * (UNIT - skew)) \div (2 * UNIT * UNIT) >>

\* mutant: the two shares rounded up
calculate_position_liquidity_deltas_ceil(p, utilization, skew) ==
    LET total_liquidity == p.liquidity + p.liquidityLocked
    IN  << (total_liquidity * utilization * (UNIT + skew) + 2 * UNIT * UNIT - 1)
               \div (2 * UNIT * UNIT),
           (total_liquidity * utilization * (UNIT - skew) + 2 * UNIT * UNIT - 1)
               \div (2 * UNIT * UNIT) >>

\* lp.py 91-118, with total_liquidity = pool liquidity + liquidityLocked
calculate_position_liquidity_deltas(p, utilization, skew) ==
    LET total_liquidity == p.liquidity + p.liquidityLocked
    IN  << (total_liquidity * utilization * (UNIT + skew)) \div (2 * UNIT * UNIT),
           (total_liquidity * utilization * (UNIT - skew)) \div (2 * UNIT * UNIT) >>

\* quoter.quoteMint(...).safeMarginMinimum: the maintenance share of the size
SafeMarginMinimum(size_desired) == (size_desired * maintenance) \div MAINTENANCE_UNIT

\* line 656 divides by leverage - 1
MarginRaises == cfg.rel_margin_above_safe_min = 0 /\ cfg.leverage = UNIT

\* mutant: the margin taken from the leverage in both modes
MarginLeverageOnly(size_desired) == TruncDiv(size_desired * UNIT, cfg.leverage - UNIT)

\* lines 655-659: int(size / (leverage - 1)) when rel_margin_above_safe_min
\* is 0, else int(safeMarginMinimum * (1 + rel_margin_above_safe_min))
Margin(size_desired) ==
    IF cfg.rel_margin_above_safe_min = 0
    THEN TruncDiv(size_desired * UNIT, cfg.leverage - UNIT)
    ELSE TruncDiv(SafeMarginMinimum(size_desired) * (UNIT + cfg.rel_margin_above_safe_min),
                  UNIT)

\* quoter.quoteMint(...).fees: the pool's fee rate on the size
QuoteFees(size_desired) == (size_desired * mrglv1_fee) \div FEE_UNIT

\* lines 685-689
NetLiquidityOpenFees(mrglv1_state, fees, zero_for_one) ==
    LET reserves == get_mrglv1_amounts_for_liquidity(mrglv1_state.sqrtPriceX96,
                                                     mrglv1_state.liquidity)
        fees0 == IF ~zero_for_one THEN fees ELSE 0
        fees1 == IF ~zero_for_one THEN 0 ELSE fees
    IN  LiquidityFromReserves(reserves[1] + fees0, reserves[2] + fees1)
            - mrglv1_state.liquidity

\* manager.mint: the pool locks the liquidity delta and moves its price
PoolAfterOpen(p, liquidity_delta, zero_for_one) ==
    [p EXCEPT !.liquidity = @ - liquidity_delta
                              + (IF liquidity_delta > 0 THEN OpenFeeLiquidity ELSE 0),
              !.liquidityLocked = @ + liquidity_delta,
              !.sqrtPriceX96 = get_mrglv1_sqrt_price_x96_next_open(
                                   p.liquidity, p.sqrtPriceX96, liquidity_delta,
                                   zero_for_one, maintenance)]

\* mutant: the holding period left out of the settle block
RecordOpenedDueNow(r, i, next_token_id, n, net_liquidity_open_fees) ==
    [r EXCEPT !.token_ids[i] = next_token_id,
              !.blocks_settle[i] = n,
              !.net_liquidity_position_fees_cumulative = @ + net_liquidity_open_fees]

\* mutant: the settle block of the second slot one block later
RecordOpenedSlotSettle(r, i, next_token_id, n, net_liquidity_open_fees) ==
    [r EXCEPT !.token_ids[i] = next_token_id,
              !.blocks_settle[i] = n + cfg.blocks_held + i,
              !.net_liquidity_position_fees_cumulative = @ + net_liquidity_open_fees]

\* lines 680-681 and 691
RecordOpened(r, i, next_token_id, n, net_liquidity_open_fees) ==
    [r EXCEPT !.token_ids[i] = next_token_id,
              !.blocks_settle[i] = n + cfg.blocks_held,
              !.net_liquidity_position_fees_cumulative = @ + net_liquidity_open_fees]

OpenStep(i) == IF i = 0 THEN "open0" ELSE "open1"

\* mutant: the occupied-slot test dropped
SlotIsEmptyAlways(token_id) == TRUE

\* line 620: a slot is opened only when it holds no position
SlotIsEmpty(token_id) == token_id = -1

\* get_positions_values line 146: pposition.debt0 if zeroForOne else debt1
DebtWithoutFunding(zeroForOne, debts) == IF zeroForOne THEN debts[1] ELSE debts[2]

\* mutant: a slot whose liquidity delta is 0 left empty
MintsForPositive(liquidity_delta) == liquidity_delta > 0

\* lines 624-676: between the delta and the mint there is no test of the delta
MintsFor(liquidity_delta) == TRUE

Open(i) ==
    /\ pc = OpenStep(i)
    /\ IF ~SlotIsEmpty(runner.token_ids[i])
       THEN /\ pc' = NextStep(pc)
            /\ UNCHANGED << pool, positions, runner, log, opened >>
       ELSE LET liquidity_delta ==
                    calculate_position_liquidity_deltas(pool, cfg.utilization, cfg.skew)[i + 1]
                zero_for_one == (i = 0)
            IN  IF ~MintsFor(liquidity_delta)
                THEN /\ pc' = NextStep(pc)
                     /\ UNCHANGED << pool, positions, runner, log, opened >>
                ELSE
                IF \/ SizeRaises(pool.liquidity, pool.sqrtPriceX96, liquidity_delta,
                                 zero_for_one, maintenance)
                   \/ MarginRaises
                THEN /\ pc' = AfterException(pc)
                     /\ log' = Append(log, Entry("raise", i))
                     /\ UNCHANGED << pool, positions, runner, opened >>
                ELSE LET size_desired == get_mrglv1_size_from_liquidity_delta(
                                             pool.liquidity, pool.sqrtPriceX96,
                                             liquidity_delta, zero_for_one, maintenance)
                         next_token_id == Len(positions) + 1
                     IN  /\ positions' = Append(positions,
                                [ zeroForOne |-> zero_for_one,
                                  size |-> size_desired,
                                  margin |-> Margin(size_desired),
                                  liquidityLocked |-> liquidity_delta,
                                  debt_without_funding |->
                                      DebtWithoutFunding(zero_for_one,
                                          DebtsAtOpen(pool.liquidity, pool.sqrtPriceX96,
                                                      liquidity_delta, zero_for_one,
                                                      maintenance)),
                                  block |-> number,
                                  status |-> "open" ])
                         /\ pool' = PoolAfterOpen(pool, liquidity_delta, zero_for_one)
                         /\ runner' = RecordOpened(runner, i, next_token_id, number,
                                          NetLiquidityOpenFees(pool, QuoteFees(size_desired),
                                                               zero_for_one))
                         /\ opened' = [opened EXCEPT ![i] =
                                         [@ EXCEPT !.done = TRUE, !.branch = "mint",
                                                   !.token_id = next_token_id,
                                                   !.size = size_desired,
                                                   !.liquidity_delta = liquidity_delta,
                                                   !.total_liquidity =
                                                       pool.liquidity + pool.liquidityLocked,
                                                   !.liquidity_before = pool.liquidity,
                                                   !.sqrt_price_x96 = pool.sqrtPriceX96]]
                         /\ log' = Append(log, Entry("mint", i))
                         /\ pc' = NextStep(pc)
    /\ UNCHANGED << cfg, runs, number, updates, state, mined, pre, seen, file, call >>

(***************************************************************************)
(* simulate_swaps (lp.py 237-325).                                         *)
(***************************************************************************)
\* lines 251-254: the fee growth turned into swap volume
NetUniv3FeeGrowth(st, r) ==
    << st.fee_growth_global_x128[1] - r.last_univ3_fee_growth_global_x128[1],
       st.fee_growth_global_x128[2] - r.last_univ3_fee_growth_global_x128[2] >>

\* lines 257-275
Amount1In(st, r, mrglv1_liquidity) ==
    LET net == NetUniv3FeeGrowth(st, r)
        volume0 == (net[1] * st.liquidity) \div Q128
        volume1 == (net[2] * st.liquidity) \div Q128
        \* int((price * volume0 + volume1) / 2), price = sqrtPriceX96^2 / 2^192
        net_univ3_fee_volume1 ==
            TruncDiv(st.sqrtPriceX96 * st.sqrtPriceX96 * volume0 + volume1 * (Q96 * Q96),
                     2 * (Q96 * Q96))
        net_mrglv1_fee_volume1 == (net_univ3_fee_volume1 * mrglv1_liquidity) \div st.liquidity
    IN  (net_mrglv1_fee_volume1 * FEE_UNIT) \div mrglv1_fee

\* mutant: the skip taken only for a negative amount
SkipsSwapsNegative(amount1_in) == amount1_in < 0

\* line 277
SkipsSwaps(amount1_in) == amount1_in = 0

\* router.exactInputSingle 1 => 0: the token0 paid out for amount1_in at the
\* pool price, net of the pool fee
Amount0Out(p, amount1_in) ==
    LET net == amount1_in - (amount1_in * mrglv1_fee) \div FEE_UNIT
    IN  (((net \div p.sqrtPriceX96) * Q96) \div p.sqrtPriceX96) * Q96

\* mutant: the second swap sized like the first
SecondSwapAmountInSame(amount1_in, amount0_out) == amount1_in

\* lines 299-309: the second swap's input is the first swap's token0 output
SecondSwapAmountIn(amount1_in, amount0_out) == amount0_out

\* the two router swaps, 1 => 0 then 0 => 1: the fees stay in the pool
PoolAfterSwaps(p) == [p EXCEPT !.liquidity = @ + SwapFeeLiquidity]

simulate_swaps ==
    /\ pc = "swaps"
    /\ LET amount1_in == Amount1In(state, runner, pool.liquidity)
       IN  IF SkipsSwaps(amount1_in)
           THEN /\ UNCHANGED << pool, runner >>
                /\ log' = Append(log, Entry("simulate_swaps", -1))
           ELSE LET after == PoolAfterSwaps(pool)
                IN  /\ pool' = after
                    /\ runner' = [runner EXCEPT !.net_liquidity_swap_fees_cumulative =
                                                    @ + (after.liquidity - pool.liquidity)]
                    /\ log' = log \o << Entry("simulate_swaps", -1),
                                        SwapEntry("swap10", amount1_in),
                                        SwapEntry("swap01",
                                            SecondSwapAmountIn(amount1_in,
                                                Amount0Out(pool, amount1_in))) >>
    /\ pc' = NextStep(pc)
    /\ UNCHANGED << cfg, runs, number, updates, state, positions, mined,
                    pre, seen, opened, file, call >>

(***************************************************************************)
(* update_strategy, lines 699-716: outstanding position attributes.        *)
(* get_positions_values queries the manager for every slot's token id; the *)
(* query cannot be made for -1.                                            *)
(***************************************************************************)
\* get_positions_values line 147: debt / debt_without_funding - 1.0 on Python
\* ints, a ZeroDivisionError when the denominator is 0
FundingRateRaises(debt_without_funding) == debt_without_funding = 0

Snapshot ==
    /\ pc = "snapshot"
    /\ IF /\ \A i \in Slots : runner.token_ids[i] \in 1..Len(positions)
          /\ \A i \in Slots :
                ~FundingRateRaises(positions[runner.token_ids[i]].debt_without_funding)
       THEN /\ runner' = [runner EXCEPT !.sizes_outstanding =
                             [i \in Slots |-> positions[runner.token_ids[i]].size]]
            /\ log' = Append(log, Entry("snapshot", -1))
            /\ pc' = NextStep(pc)
       ELSE /\ pc' = AfterException(pc)
            /\ log' = Append(log, Entry("raise", -1))
            /\ UNCHANGED runner
    /\ UNCHANGED << cfg, runs, number, updates, state, pool, positions, mined,
                    pre, seen, opened, file, call >>

\* a call into the environment reverts: the exception leaves update_strategy
Fail ==
    /\ InUpdate
    /\ pc' = AfterException(pc)
    /\ log' = Append(log, Entry("raise", -1))
    /\ UNCHANGED << cfg, runs, number, updates, state, pool, positions, runner,
                    mined, pre, seen, opened, file, call >>

(***************************************************************************)
(* record (lp.py 718-777), called by the driver after update_strategy      *)
(* returned: one row of the block is appended to the csv file, with the    *)
(* header line when the file does not exist yet.                           *)
(***************************************************************************)
\* mutant: the header written with every row
HeaderNeededAlways(f) == TRUE

\* line 775
HeaderNeeded(f) == ~f.exists

\* lines 776-777: to_csv(path, mode="a", header=header)
record(f, row) ==
    [ exists |-> TRUE,
      headers |-> f.headers + (IF HeaderNeeded(f) THEN 1 ELSE 0),
      rows |-> Append(f.rows, row) ]

Record ==
    /\ pc = "record"
    /\ file' = record(file, [run |-> runs, number |-> number])
    /\ pc' = "idle"
    /\ UNCHANGED << cfg, runs, number, updates, state, pool, positions, runner,
                    mined, log, pre, seen, opened, call >>

Next ==
    \/ Backtest
    \/ BeginUpdate
    \/ arb_pools
    \/ \E i \in Slots : Resolve(i)
    \/ \E i \in Slots : Open(i)
    \/ simulate_swaps
    \/ Snapshot
    \/ Record
    \/ Fail

Spec == Init /\ [][Next]_vars

(***************************************************************************)
(* A second backtest on the same runner instance: setup deploys fresh      *)
(* mocks and init_mocks_state runs again; the runner object is the same.   *)
(***************************************************************************)
MaxRuns == 2

Rerun ==
    /\ pc = "idle"
    /\ updates >= 1
    /\ runs < MaxRuns
    /\ pre' = [runner |-> runner, state |-> StartState, file |-> file]
    /\ StartRun
    /\ UNCHANGED file

NextRerun == Next \/ Rerun

SpecRerun == Init /\ [][NextRerun]_vars

(***************************************************************************)
(* Construction of the runner from the parameters given on the command     *)
(* line: the pydantic validators of lp.py 67-89 run on the values given,   *)
(* and a value they reject is a ValidationError that ends the program      *)
(* before any backtest.  blocks_held and sqrt_price_tol have no validator. *)
(***************************************************************************)
\* mutant: a leverage of exactly 1 accepted
leverage_at_least_one(v) == v >= UNIT

\* lines 67-71
leverage_greater_than_one(v) == ~(v <= UNIT)

\* lines 73-77
rel_margin_above_safe_min_greater_than_or_equal_to_zero(v) == ~(v < 0)

\* lines 79-83
utilization_between_zero_and_one(v) == ~(v < 0 \/ v > UNIT)

\* lines 85-89
skew_mag_less_than_one(v) == ~(Abs(v) > UNIT)

Validates(c) ==
    /\ leverage_greater_than_one(c.leverage)
    /\ rel_margin_above_safe_min_greater_than_or_equal_to_zero(c.rel_margin_above_safe_min)
    /\ utilization_between_zero_and_one(c.utilization)
    /\ skew_mag_less_than_one(c.skew)

\* parameters a user may give: one parameter moved off a valid base, to the
\* edge of its domain and past it
BaseConfig == Config(2, 0, Leverage, 0, blocks_held, TolNum)

RawConfigs ==
    {BaseConfig}
    \cup { [BaseConfig EXCEPT !.utilization = v] : v \in {-1, 0, UNIT, UNIT + 1} }
    \cup { [BaseConfig EXCEPT !.skew = v] : v \in {-UNIT - 1, -UNIT, UNIT, UNIT + 1} }
    \cup { [BaseConfig EXCEPT !.leverage = v] : v \in {UNIT - 1, UNIT, UNIT + 1} }
    \cup { [BaseConfig EXCEPT !.rel_margin_above_safe_min = v] : v \in {-1, 1} }
    \cup { [BaseConfig EXCEPT !.rel_margin_above_safe_min = 1, !.leverage = UNIT + 1] }
    \cup { [BaseConfig EXCEPT !.blocks_held = v] : v \in {-1, 0} }
    \cup { [BaseConfig EXCEPT !.sqrt_price_tol = v] : v \in {-1, 0} }

InitConfig ==
    /\ cfg \in RawConfigs
    /\ pc = "config"
    /\ runs = 0
    /\ number = StartBlock
    /\ updates = 0
    /\ state = StartState
    /\ pool = [liquidity |-> 0, sqrtPriceX96 |-> 0, liquidityLocked |-> 0]
    /\ positions = << >>
    /\ runner = RunnerDefaults
    /\ mined = 0
    /\ log = << >>
    /\ pre = [runner |-> RunnerDefaults, state |-> StartState, file |-> NoFile]
    /\ seen = NoSlotInfo
    /\ opened = NoSlotInfo
    /\ file \in { NoFile, EarlierFile }
    /\ call = NoCall

\* runner_cls(**kwargs), scripts/backtester.py line 57
Construct ==
    /\ pc = "config"
    /\ pc' = IF Validates(cfg) THEN "new" ELSE "invalid"
    /\ UNCHANGED << cfg, runs, number, updates, state, pool, positions, runner,
                    mined, log, pre, seen, opened, file, call >>

NextConfig == Construct \/ Next

SpecConfig == InitConfig /\ [][NextConfig]_vars

(***************************************************************************)
(* The pure functions on their own: a call with arguments drawn from small *)
(* sets, and its outcome (raised, or the values returned).                 *)
(***************************************************************************)
MaxLiquidity == 12

MathLiquidities == 0..MaxLiquidity \cup {InitLiquidity}
MathSqrtPrices == { Q96 \div 4, Q96, StartSqrtPriceX96, 4 * Q96 }

\* the maintenance argument: none, the pool's, and one above the unit
Maintenances == { 0, maintenance, MAINTENANCE_UNIT + 1 }

PriceCalls ==
    { [NoCall EXCEPT !.fn = f, !.liquidity = l, !.sqrt_price_x96 = s,
                     !.liquidity_delta = d, !.zero_for_one = z, !.maintenance = m] :
        f \in {"pending_next_open", "pending_size"},
        l \in MathLiquidities, s \in MathSqrtPrices \cup {0},
        d \in (-2)..(MaxLiquidity + 1), z \in BOOLEAN, m \in Maintenances }

DeltaCalls ==
    { [NoCall EXCEPT !.fn = "pending_deltas", !.liquidity = l, !.liquidityLocked = k,
                     !.utilization = u, !.utilization2 = v, !.skew = w] :
        l \in MathLiquidities, k \in {0, 3},
        u \in 0..UNIT, v \in 0..UNIT, w \in (-UNIT)..UNIT }

RoundTripCalls ==
    { [NoCall EXCEPT !.fn = "pending_round_trip", !.liquidity = l, !.sqrt_price_x96 = s] :
        l \in MathLiquidities, s \in MathSqrtPrices }

InitMath ==
    /\ cfg = BaseConfig
    /\ pc = "math"
    /\ runs = 0
    /\ number = StartBlock
    /\ updates = 0
    /\ state = StartState
    /\ pool = [liquidity |-> 0, sqrtPriceX96 |-> 0, liquidityLocked |-> 0]
    /\ positions = << >>
    /\ runner = RunnerDefaults
    /\ mined = 0
    /\ log = << >>
    /\ pre = [runner |-> RunnerDefaults, state |-> StartState, file |-> NoFile]
    /\ seen = NoSlotInfo
    /\ opened = NoSlotInfo
    /\ file = NoFile
    /\ call \in PriceCalls \cup DeltaCalls \cup RoundTripCalls

\* get_mrglv1_sqrt_price_x96_next_open is called
CallNextOpen ==
    /\ pc = "math"
    /\ call.fn = "pending_next_open"
    /\ LET raises == NextOpenRaises(call.liquidity, call.sqrt_price_x96,
                                    call.liquidity_delta, call.zero_for_one,
                                    call.maintenance)
           next == get_mrglv1_sqrt_price_x96_next_open(
                       call.liquidity, call.sqrt_price_x96, call.liquidity_delta,
                       call.zero_for_one, call.maintenance)
           under == SqrtUnder(call.liquidity, call.liquidity_delta, call.maintenance)
       IN  call' = [call EXCEPT !.fn = "next_open", !.raised = raises,
                                !.under = under,
                                !.root = IF under < 0 THEN -1 ELSE Isqrt(under),
                                !.result = IF raises THEN << 0, 0 >> ELSE << next, 0 >>]
    /\ UNCHANGED << cfg, pc, runs, number, updates, state, pool, positions, runner,
                    mined, log, pre, seen, opened, file >>

\* get_mrglv1_size_from_liquidity_delta is called; result holds the size and
\* the next sqrt price it computed on the way
CallSize ==
    /\ pc = "math"
    /\ call.fn = "pending_size"
    /\ LET raises == SizeRaises(call.liquidity, call.sqrt_price_x96,
                                call.liquidity_delta, call.zero_for_one, call.maintenance)
           next == get_mrglv1_sqrt_price_x96_next_open(
                       call.liquidity, call.sqrt_price_x96, call.liquidity_delta,
                       call.zero_for_one, call.maintenance)
           size == get_mrglv1_size_from_liquidity_delta(
                       call.liquidity, call.sqrt_price_x96, call.liquidity_delta,
                       call.zero_for_one, call.maintenance)
       IN  call' = [call EXCEPT !.fn = "size", !.raised = raises,
                                !.result = IF raises THEN << 0, 0 >> ELSE << size, next >>]
    /\ UNCHANGED << cfg, pc, runs, number, updates, state, pool, positions, runner,
                    mined, log, pre, seen, opened, file >>

\* calculate_position_liquidity_deltas is called twice on the same pool, with
\* utilization and with utilization2
CallDeltas ==
    /\ pc = "math"
    /\ call.fn = "pending_deltas"
    /\ LET p == [liquidity |-> call.liquidity, liquidityLocked |-> call.liquidityLocked]
       IN  call' = [call EXCEPT
                       !.fn = "deltas",
                       !.result = calculate_position_liquidity_deltas(
                                      p, call.utilization, call.skew),
                       !.result2 = calculate_position_liquidity_deltas(
                                       p, call.utilization2, call.skew)]
    /\ UNCHANGED << cfg, pc, runs, number, updates, state, pool, positions, runner,
                    mined, log, pre, seen, opened, file >>

\* get_mrglv1_amounts_for_liquidity, then the liquidity recovered from the
\* two amounts
CallRoundTrip ==
    /\ pc = "math"
    /\ call.fn = "pending_round_trip"
    /\ LET amounts == get_mrglv1_amounts_for_liquidity(call.sqrt_price_x96, call.liquidity)
       IN  call' = [call EXCEPT
                       !.fn = "round_trip",
                       !.result = amounts,
                       !.result2 = << LiquidityFromReserves(amounts[1], amounts[2]), 0 >>]
    /\ UNCHANGED << cfg, pc, runs, number, updates, state, pool, positions, runner,
                    mined, log, pre, seen, opened, file >>

NextMath ==
    \/ CallNextOpen
    \/ CallSize
    \/ CallDeltas
    \/ CallRoundTrip

SpecMath == InitMath /\ [][NextMath]_vars

(***************************************************************************)
(* get_refs_state (lp.py 343-399), the part that builds observation0: the  *)
(* oracle is asked for the observation secondsAgo before the block; a      *)
(* ProviderError sends the function to an approximation from the block     *)
(* secondsAgo // 12 earlier.  The provider's responses are the inputs.     *)
(***************************************************************************)
SECONDS_PER_BLOCK == 12   \* the 12 of lines 380-381

SecondsAgos == { 2 * SECONDS_PER_BLOCK, 2 * SECONDS_PER_BLOCK + 6 }
TickCumulatives == { -50, 70 }
Ticks == { -2, 3 }

Responses(values) ==
    { Response("ok", v) : v \in values }
    \cup { Response(o, 0) : o \in {"provider_error", "error"} }

RefsCallsAt(n, a) ==
    { [NoCall EXCEPT !.fn = "pending_get_refs_state", !.number = n, !.seconds_ago = a,
                     !.provider = [ observe_ago |-> r1, prior_timestamp |-> r2,
                                    observe_prior |-> r3, slot0_tick |-> r4 ]] :
        r1 \in Responses(TickCumulatives),
        r2 \in Responses({Timestamp(n) - a, Timestamp(n) - a + 6}),
        r3 \in Responses({-20}),
        r4 \in Responses(Ticks) }

RefsCalls ==
    UNION { RefsCallsAt(n, a) : n \in {StartBlock, StartBlock + Step}, a \in SecondsAgos }

InitRefs ==
    /\ cfg = BaseConfig
    /\ pc = "refs"
    /\ runs = 0
    /\ number = StartBlock
    /\ updates = 0
    /\ state = StartState
    /\ pool = [liquidity |-> 0, sqrtPriceX96 |-> 0, liquidityLocked |-> 0]
    /\ positions = << >>
    /\ runner = RunnerDefaults
    /\ mined = 0
    /\ log = << >>
    /\ pre = [runner |-> RunnerDefaults, state |-> StartState, file |-> NoFile]
    /\ seen = NoSlotInfo
    /\ opened = NoSlotInfo
    /\ file = NoFile
    /\ call \in RefsCalls

\* mutant: except Exception, the approximation taken on any failure
TakesFallbackAnyError(response) == response.outcome # "ok"

\* line 376: except ProviderError
TakesFallback(response) == response.outcome = "provider_error"

\* lines 377-380: the two messages, each naming a block
FallbackReport(n, seconds_ago) ==
    << [text |-> "Error on getting seconds ago from oracle observations at block", block |-> n],
       [text |-> "Attempting rough approx with observe([0]) at block",
        block |-> n - seconds_ago \div SECONDS_PER_BLOCK] >>

\* lines 372-380: the try, and the handler up to its report
RefsObserve ==
    /\ pc = "refs"
    /\ call.fn = "pending_get_refs_state"
    /\ LET r == call.provider.observe_ago
       IN  IF r.outcome = "ok"
           THEN call' = [call EXCEPT !.fn = "refs_return", !.result = << r.value, 0 >>]
           ELSE IF TakesFallback(r)
           THEN call' = [call EXCEPT !.fn = "refs_fallback", !.fallback = TRUE,
                                     !.echo = @ \o FallbackReport(call.number, call.seconds_ago)]
           ELSE call' = [call EXCEPT !.fn = "get_refs_state", !.raised = TRUE]
    /\ UNCHANGED << cfg, pc, runs, number, updates, state, pool, positions, runner,
                    mined, log, pre, seen, opened, file >>

\* mutant: a failed query of the approximation is passed over
FallbackRaisesNever(provider) == FALSE

\* lines 381-388 are outside any try: a failed query raises
FallbackRaises(provider) ==
    \/ provider.prior_timestamp.outcome # "ok"
    \/ provider.observe_prior.outcome # "ok"
    \/ provider.slot0_tick.outcome # "ok"

\* lines 389-390: tick_cumulatives[0] -= prior_tick * prior_dt
InterpolatedTickCumulative(provider, timestamp, seconds_ago) ==
    LET prior_dt == provider.prior_timestamp.value - (timestamp - seconds_ago)
    IN  provider.observe_prior.value - provider.slot0_tick.value * prior_dt

\* lines 381-390
RefsFallback ==
    /\ pc = "refs"
    /\ call.fn = "refs_fallback"
    /\ IF FallbackRaises(call.provider)
       THEN call' = [call EXCEPT !.fn = "get_refs_state", !.raised = TRUE]
       ELSE call' = [call EXCEPT !.fn = "refs_return",
                        !.result = << InterpolatedTickCumulative(
                                          call.provider, Timestamp(call.number),
                                          call.seconds_ago), 0 >>]
    /\ UNCHANGED << cfg, pc, runs, number, updates, state, pool, positions, runner,
                    mined, log, pre, seen, opened, file >>

\* lines 392-399: observation0 as (timestamp, tick cumulative)
RefsReturn ==
    /\ pc = "refs"
    /\ call.fn = "refs_return"
    /\ call' = [call EXCEPT !.fn = "get_refs_state",
                            !.observation0 = << Timestamp(call.number) - call.seconds_ago,
                                                call.result[1] >>]
    /\ UNCHANGED << cfg, pc, runs, number, updates, state, pool, positions, runner,
                    mined, log, pre, seen, opened, file >>

NextRefs ==
    \/ RefsObserve
    \/ RefsFallback
    \/ RefsReturn

SpecRefs == InitRefs /\ [][NextRefs]_vars

(***************************************************************************)
(* Properties.                                                             *)
(***************************************************************************)
InLog(op, slot) == \E k \in 1..Len(log) : log[k].op = op /\ log[k].slot = slot

UpdateCompleted == pc = "idle" /\ updates >= 1 /\ number > StartBlock

\* C1: liquidation precedence.  In any update, a slot whose position was read
\* unsafe with its settle-due block reached is liquidated (pool.liquidate is
\* sent and its liquidated count goes up by one) and is not settled (no
\* manager.burn, settled count unchanged).
C1_LiquidationPrecedence ==
    \A i \in Slots :
        (seen[i].done /\ ~seen[i].safe /\ seen[i].due) =>
            /\ InLog("liquidate", i)
            /\ ~InLog("burn", i)
            /\ runner.positions_liquidated_cumulative[i]
                   = pre.runner.positions_liquidated_cumulative[i] + 1
            /\ runner.positions_settled_cumulative[i]
                   = pre.runner.positions_settled_cumulative[i]

C1_Witness ==
    /\ UpdateCompleted
    /\ \E i \in Slots : seen[i].done /\ ~seen[i].safe /\ seen[i].due

\* C2: slot exclusivity.  Every slot is either EMPTY (-1) or holds the token id
\* of a minted position that is still open, and over one update the liquidated
\* and settled counts of a slot rise by 0 or 1 together.
C2_SlotExclusivity ==
    \A i \in Slots :
        /\ \/ runner.token_ids[i] = -1
           \/ /\ runner.token_ids[i] \in 1..Len(positions)
              /\ positions[runner.token_ids[i]].status = "open"
        /\ (runner.positions_liquidated_cumulative[i]
                - pre.runner.positions_liquidated_cumulative[i])
           + (runner.positions_settled_cumulative[i]
                - pre.runner.positions_settled_cumulative[i]) \in {0, 1}

C2_Witness ==
    /\ UpdateCompleted
    /\ InLog("liquidate", 0)
    /\ InLog("burn", 1)
    /\ runner.token_ids[0] # -1
    /\ runner.token_ids[1] # -1

\* C3: at most one position per side.  The positions minted for side i and not
\* yet liquidated or burned are at most one, and exactly the one slot i tracks.
OutstandingOfSide(i) ==
    { t \in 1..Len(positions) :
        positions[t].status = "open" /\ positions[t].zeroForOne = (i = 0) }

C3_OnePositionPerSide ==
    \A i \in Slots :
        /\ Cardinality(OutstandingOfSide(i)) <= 1
        /\ OutstandingOfSide(i) =
               IF runner.token_ids[i] = -1 THEN {} ELSE {runner.token_ids[i]}

C3_Witness ==
    /\ UpdateCompleted
    /\ \E i \in Slots :
         /\ OutstandingOfSide(i) = {runner.token_ids[i]}
         /\ \E t \in 1..Len(positions) :
              positions[t].zeroForOne = (i = 0) /\ positions[t].status # "open"

\* C4: fixed step order.  Within one update the steps come in the order
\* arbitrage, resolve slot 0, resolve slot 1, open slot 0, open slot 1, fee
\* swaps, arbitrage, snapshot, each at most once: nothing is resolved after an
\* open, nothing is opened after the fee swaps, and a completed update resolved
\* every slot that was occupied and opened every slot that was then empty.
ResolveOps == {"liquidate", "burn", "hold"}
SwapOps == {"simulate_swaps", "swap10", "swap01"}
ArbsBefore(k) == { j \in 1..(k - 1) : log[j].op = "arb_pools" }

C4_FixedStepOrder ==
    /\ \A j, k \in 1..Len(log) :
         j < k =>
           /\ log[k].op # "mine"
           /\ log[j].op # "snapshot"
           /\ log[k].op \in ResolveOps =>
                /\ log[j].op \notin ({"mint"} \cup SwapOps)
                /\ log[j].op \in ResolveOps => log[j].slot < log[k].slot
           /\ log[k].op = "mint" =>
                /\ log[j].op \notin SwapOps
                /\ log[j].op = "mint" => log[j].slot < log[k].slot
           /\ log[k].op = "simulate_swaps" => log[j].op # "simulate_swaps"
    /\ \A k \in 1..Len(log) :
         LET earlier == { log[j].op : j \in 1..(k - 1) }
         IN  /\ log[k].op = "arb_pools" =>
                  IF ArbsBefore(k) = {}
                  THEN earlier \subseteq {"mine"}
                  ELSE Cardinality(ArbsBefore(k)) = 1 /\ "simulate_swaps" \in earlier
             /\ log[k].op \in (ResolveOps \cup {"mint", "simulate_swaps"}) =>
                  Cardinality(ArbsBefore(k)) = 1
             /\ log[k].op = "snapshot" =>
                  Cardinality(ArbsBefore(k)) = 2
    /\ UpdateCompleted =>
         /\ log[Len(log)].op = "snapshot"
         /\ \A i \in Slots :
              /\ pre.runner.token_ids[i] # -1 =>
                   \E op \in ResolveOps : InLog(op, i)
              /\ InLog("hold", i) # InLog("mint", i)

C4_Witness ==
    /\ UpdateCompleted
    /\ InLog("mine", -1)
    /\ InLog("execute", -1)
    /\ InLog("liquidate", 0)
    /\ InLog("burn", 1)
    /\ InLog("mint", 0)
    /\ InLog("mint", 1)
    /\ InLog("swap10", -1)

\* C5: incremental fee growth.  The fee growth simulate_swaps turns into volume
\* in an update is the reference accumulator at this block minus its value at
\* the previous update (at the initialisation block for the first update).
C5_IncrementalFeeGrowth ==
    (InUpdate \/ UpdateCompleted) =>
        NetUniv3FeeGrowth(state, runner) =
            << state.fee_growth_global_x128[1] - pre.state.fee_growth_global_x128[1],
               state.fee_growth_global_x128[2] - pre.state.fee_growth_global_x128[2] >>

\* C6: metric monotonicity.  The liquidated and settled counts of a slot never
\* decrease; each changes only by +1, and exactly in the step that liquidates
\* (settles) the position of that slot.
C6_MetricMonotonicity ==
    [][\A i \in Slots :
         LET liquidated  == runner.positions_liquidated_cumulative[i]
             liquidated2 == runner'.positions_liquidated_cumulative[i]
             settled     == runner.positions_settled_cumulative[i]
             settled2    == runner'.positions_settled_cumulative[i]
         IN  /\ liquidated2 - liquidated \in {0, 1}
             /\ settled2 - settled \in {0, 1}
             /\ (liquidated2 = liquidated + 1)
                    <=> (pc = ResolveStep(i) /\ log' = Append(log, Entry("liquidate", i)))
             /\ (settled2 = settled + 1)
                    <=> (pc = ResolveStep(i) /\ log' = Append(log, Entry("burn", i)))
      ]_vars

C6_Witness ==
    /\ UpdateCompleted
    /\ \E i, j \in Slots :
         /\ runner.positions_liquidated_cumulative[i] >= 2
         /\ runner.positions_settled_cumulative[j] >= 1

\* C7: arbitrage is a no-op within tolerance.  arb_pools sends the arbitrageur
\* trade if and only if |reference / pool - 1| > sqrt_price_tol; otherwise it
\* sends nothing and leaves the runner's fields and the pool unchanged.
WithinTolerance ==
    Abs(state.sqrtPriceX96 - pool.sqrtPriceX96) * TolDen
        <= cfg.sqrt_price_tol * pool.sqrtPriceX96

C7_ArbNoOpWithinTolerance ==
    [][(pc \in {"arb1", "arb2"} /\ pc' # "aborted") =>
         /\ WithinTolerance =>
              /\ runner' = runner
              /\ pool' = pool
              /\ positions' = positions
              /\ log' = Append(log, Entry("arb_pools", -1))
         /\ ~WithinTolerance =>
              log' = log \o << Entry("arb_pools", -1), Entry("execute", -1) >>
      ]_vars

C7_Witness ==
    /\ pc = "resolve0"
    /\ state.sqrtPriceX96 # pool.sqrtPriceX96
    /\ WithinTolerance
    /\ log[Len(log)] = Entry("arb_pools", -1)

\* C8: zero fee volume is skipped.  When the computed amount1_in is 0,
\* simulate_swaps sends no swap and leaves the swap-fee metric (and every other
\* runner field, and the pool) unchanged.
C8_ZeroFeeVolumeSkipped ==
    [][(/\ pc = "swaps"
        /\ pc' # "aborted"
        /\ Amount1In(state, runner, pool.liquidity) = 0) =>
         /\ pool' = pool
         /\ runner' = runner
         /\ log' = Append(log, Entry("simulate_swaps", -1))
      ]_vars

C8_Witness ==
    /\ pc = "arb2"
    /\ log[Len(log)] = Entry("simulate_swaps", -1)
    /\ NetUniv3FeeGrowth(state, runner) # << 0, 0 >>
    /\ Amount1In(state, runner, pool.liquidity) = 0

\* C9: slots start EMPTY.  At the first block of every run (after setup and
\* init_mocks_state, before the first update) both slots are EMPTY and every
\* cumulative metric is zero.
C9_SlotsStartEmpty ==
    (pc = "idle" /\ number = StartBlock) =>
        /\ \A i \in Slots :
             /\ runner.token_ids[i] = -1
             /\ runner.positions_liquidated_cumulative[i] = 0
             /\ runner.positions_settled_cumulative[i] = 0
             /\ runner.sizes_liquidated_cumulative[i] = 0
             /\ runner.sizes_settled_cumulative[i] = 0
             /\ runner.net_liquidity_liquidated_cumulative[i] = 0
             /\ runner.net_liquidity_settled_cumulative[i] = 0
        /\ runner.net_liquidity_swap_fees_cumulative = 0
        /\ runner.net_liquidity_position_fees_cumulative = 0

\* Rounding allowed between two sizes, in token units.
SizeRounding == 2

\* The first update of a run with utilization = 0.5, skew = 0, leverage = 2
\* has completed.
FirstUpdateOfScenario ==
    /\ UpdateCompleted
    /\ updates = 1
    /\ cfg.utilization * 2 = UNIT
    /\ cfg.skew = 0

C11_PostConditionsEnforced ==
    (call.fn \in {"next_open", "size"}) =>
        /\ (call.liquidity_delta >= call.liquidity) => call.raised
        /\ (~call.raised /\ call.fn = "next_open") => call.result[1] > 0
        /\ (~call.raised /\ call.fn = "size") => call.result[2] > 0

\* C12: skew symmetry of calculate_position_liquidity_deltas.  skew = 0 gives
\* equal deltas, skew = 1 gives liquidity_delta_10 = 0 and skew = -1 gives
\* liquidity_delta_01 = 0, for every total liquidity and utilization.
C12_SkewSymmetry ==
    (call.fn = "deltas") =>
        /\ (call.skew = 0) => call.result[1] = call.result[2]
        /\ (call.skew = UNIT) => call.result[2] = 0
        /\ (call.skew = -UNIT) => call.result[1] = 0

C12_Witness ==
    /\ call.fn = "deltas"
    /\ call.skew = UNIT
    /\ call.result[1] > 0
    /\ call.result[2] = 0

\* C13: utilization monotonicity, strict.  For u1 < u2 both deltas computed
\* with u2 are strictly greater than those computed with u1.
C13_StrictlyIncreasing ==
    (call.fn = "deltas" /\ call.utilization < call.utilization2) =>
        /\ call.result2[1] > call.result[1]
        /\ call.result2[2] > call.result[2]

\* the value of side k before flooring rises by at least 1 from u1 to u2
RisesByOne(k) ==
    (call.liquidity + call.liquidityLocked) * (call.utilization2 - call.utilization)
        * (IF k = 1 THEN UNIT + call.skew ELSE UNIT - call.skew) >= 2 * UNIT * UNIT

\* C13, amended: for u1 < u2 each delta computed with u2 is greater than or
\* equal to the one computed with u1, and strictly greater when the value
\* before flooring differs by at least 1.
C13_NonDecreasing ==
    (call.fn = "deltas" /\ call.utilization < call.utilization2) =>
        \A k \in {1, 2} :
            /\ call.result2[k] >= call.result[k]
            /\ RisesByOne(k) => call.result2[k] > call.result[k]

C13_Witness ==
    /\ call.fn = "deltas"
    /\ call.utilization < call.utilization2
    /\ call.utilization > 0
    /\ call.result2[1] > call.result[1]
    /\ call.result2[2] = call.result[2]
    /\ call.skew < UNIT

\* C14: round trip.  The liquidity recovered from the amounts of
\* get_mrglv1_amounts_for_liquidity differs from the original by at most 1.
C14_RoundTripWithinOne ==
    (call.fn = "round_trip") => Abs(call.result2[1] - call.liquidity) <= 1

\* sqrtPriceX96 / 2^96 + 2^96 / sqrtPriceX96, rounded up
PriceSpread(sqrt_price_x96) ==
    (sqrt_price_x96 * sqrt_price_x96 + Q96 * Q96 + sqrt_price_x96 * Q96 - 1)
        \div (sqrt_price_x96 * Q96)

\* C14, amended: the recovered liquidity never exceeds the original and falls
\* short of it by at most sqrtPriceX96 / 2^96 + 2^96 / sqrtPriceX96.
C14_RoundTripWithinSpread ==
    (call.fn = "round_trip") =>
        /\ call.result2[1] <= call.liquidity
        /\ call.liquidity - call.result2[1] <= PriceSpread(call.sqrt_price_x96)

C14_Witness ==
    /\ call.fn = "round_trip"
    /\ call.liquidity - call.result2[1] > 1
    /\ call.result2[1] > 0

\* a value of one of the four validated parameters outside its domain
OutOfDomain(c) ==
    \/ c.utilization < 0 \/ c.utilization > UNIT
    \/ Abs(c.skew) > UNIT
    \/ c.leverage <= UNIT
    \/ c.rel_margin_above_safe_min < 0

\* C15: eager validation.  Construction fails exactly for utilization outside
\* [0, 1], |skew| > 1, leverage <= 1 or rel_margin_above_safe_min < 0 (the
\* boundary values are accepted), and no step of update_strategy runs with
\* such a value.
C15_EagerValidation ==
    /\ (pc # "config") => (pc = "invalid" <=> OutOfDomain(cfg))
    /\ InUpdate => ~OutOfDomain(cfg)

C15_Witness ==
    /\ pc = "open0"
    /\ cfg.utilization = UNIT
    /\ cfg.rel_margin_above_safe_min = 0

\* C16: domain of the remaining parameters.  No step of update_strategy runs
\* with blocks_held <= 0 or sqrt_price_tol <= 0.
C16_RemainingDomain ==
    InUpdate => (cfg.blocks_held > 0 /\ cfg.sqrt_price_tol > 0)

\* the position of slot i is closed with the given status in this step
Closes(i, status) ==
    /\ pc = ResolveStep(i)
    /\ runner.token_ids[i] \in 1..Len(positions)
    /\ positions[runner.token_ids[i]].status = "open"
    /\ positions'[runner.token_ids[i]].status = status

\* C17: net-liquidity accounting.  When slot i is liquidated (settled), its
\* cumulative net liquidity liquidated (settled) grows by exactly (pool
\* liquidity after the call - pool liquidity before it) - liquidityLocked of
\* the position read before the call, and the other of the two is unchanged.
C17_NetLiquidityAccounting ==
    [][\A i \in Slots :
          LET net == (pool'.liquidity - pool.liquidity)
                        - positions[runner.token_ids[i]].liquidityLocked
          IN  /\ Closes(i, "liquidated") =>
                    /\ runner'.net_liquidity_liquidated_cumulative[i]
                           = runner.net_liquidity_liquidated_cumulative[i] + net
                    /\ runner'.net_liquidity_settled_cumulative[i]
                           = runner.net_liquidity_settled_cumulative[i]
              /\ Closes(i, "burned") =>
                    /\ runner'.net_liquidity_settled_cumulative[i]
                           = runner.net_liquidity_settled_cumulative[i] + net
                    /\ runner'.net_liquidity_liquidated_cumulative[i]
                           = runner.net_liquidity_liquidated_cumulative[i]]_vars

C17_Witness ==
    \E i, j \in Slots :
        /\ runner.net_liquidity_liquidated_cumulative[i] < 0
        /\ runner.net_liquidity_settled_cumulative[j] > 0

KeepsRows(f, g) ==
    /\ Len(g.rows) >= Len(f.rows)
    /\ SubSeq(g.rows, 1, Len(f.rows)) = f.rows

\* C19: append-only output.  record writes the header only when the file
\* does not exist and appends exactly one row; no step ever drops a row, so a
\* backtest run again on the same path keeps the earlier rows and appends
\* the new ones after them.
C19_AppendOnly ==
    [][/\ KeepsRows(file, file')
       /\ file.exists => (file'.exists /\ file'.headers = 1)
       /\ (pc = "record") => Len(file'.rows) = Len(file.rows) + 1]_vars

\* C19, amended: record writes the header only when the file does not exist
\* and appends exactly one row, so the k record calls of a run leave one
\* header and k rows; main removes a file already at the path before it runs
\* the backtest, and no other step touches the file.
C19_AppendUnlessRemoved ==
    [][/\ (pc = "record") =>
              /\ file'.rows = Append(file.rows, [run |-> runs, number |-> number])
              /\ file'.exists /\ file'.headers = 1
              /\ Len(file'.rows) = updates
       /\ (pc = "new") => file' = NoFile
       /\ (pc \notin {"record", "new"}) => file' = file]_vars

C19_Witness ==
    /\ pc = "idle"
    /\ updates >= 2
    /\ file.headers = 1
    /\ Len(file.rows) = updates
    /\ \A k \in 1..Len(file.rows) : file.rows[k].run = runs

\* an exception left update_strategy in the current update
Raised == \E k \in 1..Len(log) : log[k].op = "raise"

\* slot state and cumulative metrics of the runner
SlotsAndMetrics(r) ==
    [r EXCEPT !.last_univ3_observation1 = -1,
              !.last_univ3_fee_growth_global_x128 = << -1, -1 >>]

\* C20: a block update is all-or-nothing.  When a step of update_strategy
\* fails, the run stops with no row written for the block, the earlier rows
\* are left as they are, and the runner's slot state and cumulative metrics
\* are those from before the failed update.
C20_AllOrNothing ==
    Raised =>
        /\ pc = "aborted"
        /\ file = pre.file
        /\ SlotsAndMetrics(runner) = SlotsAndMetrics(pre.runner)

\* C20, amended: when a step of update_strategy fails, the run stops with no
\* row written for the block and the earlier rows left as they are; the
\* runner keeps the changes of the steps that completed before the failure.
C20_FailureStopsUnrecorded ==
    Raised =>
        /\ pc = "aborted"
        /\ file = pre.file
        /\ \A k \in 1..Len(file.rows) : file.rows[k].number # number

C20_Witness ==
    /\ Raised
    /\ Len(file.rows) >= 1
    /\ \E i \in Slots :
         /\ runner.positions_liquidated_cumulative[i]
                > pre.runner.positions_liquidated_cumulative[i]
         /\ runner.token_ids[i] # pre.runner.token_ids[i]

\* get_refs_state has returned or raised
RefsDone == call.fn = "get_refs_state"

\* C21: the fallback fetch is surfaced.  get_refs_state takes the
\* interpolation path exactly when observe([secondsAgo]) fails with a
\* provider error; whenever it is on that path it has reported it, naming the
\* block; when the query succeeds observation0 is the queried value and
\* nothing is reported.
C21_FallbackSurfaced ==
    /\ call.fallback =>
          /\ call.provider.observe_ago.outcome = "provider_error"
          /\ \E k \in 1..Len(call.echo) : call.echo[k].block = call.number
    /\ (RefsDone /\ call.provider.observe_ago.outcome = "provider_error") => call.fallback
    /\ (RefsDone /\ call.provider.observe_ago.outcome = "ok") =>
          /\ ~call.raised
          /\ call.observation0[2] = call.provider.observe_ago.value
          /\ call.echo = << >>

C21_Witness ==
    /\ RefsDone
    /\ ~call.raised
    /\ call.fallback
    /\ call.provider.prior_timestamp.value # Timestamp(call.number) - call.seconds_ago
    /\ call.observation0[2] # call.provider.observe_prior.value

\* C28: fallback failure is fatal.  If observe([secondsAgo]) fails and a
\* query of the fallback path fails too, get_refs_state raises and returns
\* no state; a state it returns always holds an observation0.
C28_FallbackFailureFatal ==
    RefsDone =>
        /\ (call.fallback /\ \E q \in {"prior_timestamp", "observe_prior", "slot0_tick"} :
                                 call.provider[q].outcome # "ok")
               => (call.raised /\ call.observation0 = << >>)
        /\ ~call.raised => Len(call.observation0) = 2

C28_Witness ==
    /\ RefsDone
    /\ call.raised
    /\ call.fallback
    /\ call.provider.prior_timestamp.outcome = "ok"
    /\ call.provider.observe_prior.outcome = "ok"
    /\ call.provider.slot0_tick.outcome = "provider_error"

\* C22: the funding-rate denominator is never zero.  At the snapshot step of
\* an update, under every configuration the validators accept, each open
\* slot's debt without funding is > 0, so get_positions_values never divides
\* by zero.
C22_DenominatorNeverZero ==
    pc = "snapshot" =>
        \A i \in Slots :
            runner.token_ids[i] \in 1..Len(positions) =>
                positions[runner.token_ids[i]].debt_without_funding > 0

\* the calls of one kind made so far in the current update_strategy call
Count(op, slot) == Cardinality({ k \in 1..Len(log) : log[k].op = op /\ log[k].slot = slot })

\* the writes of the current update to each cumulative metric: one after each
\* executed arbitrage and one after the swaps (lp.py 235, 319), one after each
\* mint (lp.py 691), one after each liquidation (lp.py 587-590) or burn (613-616)
WritesSwapFees == Count("execute", -1) + Count("swap01", -1)
WritesPositionFees == Count("mint", 0) + Count("mint", 1)
WritesLiquidated(i) == Count("liquidate", i)
WritesSettled(i) == Count("burn", i)

\* C23: running metrics are updated exactly once per block.  Within a single
\* update_strategy call each cumulative metric (per-slot liquidated and
\* settled metrics, the swap-fee and the position-fee net liquidity) is
\* written at most once.
C23_WrittenAtMostOnce ==
    /\ WritesSwapFees <= 1
    /\ WritesPositionFees <= 1
    /\ \A i \in Slots : WritesLiquidated(i) <= 1 /\ WritesSettled(i) <= 1

\* C23 as amended: within a single update_strategy call each per-slot
\* metric is written at most once, and a slot's liquidated and settled
\* metrics are never both written; the swap-fee net liquidity is written once
\* by each arbitrage that executes and once by the swaps (at most three times)
\* and the position-fee net liquidity once by each slot opened (at most twice).
C23_WritesPerUpdate ==
    /\ \A i \in Slots :
          /\ WritesLiquidated(i) + WritesSettled(i) <= 1
          /\ runner.positions_liquidated_cumulative[i]
                = pre.runner.positions_liquidated_cumulative[i] + WritesLiquidated(i)
          /\ runner.positions_settled_cumulative[i]
                = pre.runner.positions_settled_cumulative[i] + WritesSettled(i)
          /\ WritesLiquidated(i) = 0 =>
                /\ runner.sizes_liquidated_cumulative[i] = pre.runner.sizes_liquidated_cumulative[i]
                /\ runner.net_liquidity_liquidated_cumulative[i]
                      = pre.runner.net_liquidity_liquidated_cumulative[i]
          /\ WritesSettled(i) = 0 =>
                /\ runner.sizes_settled_cumulative[i] = pre.runner.sizes_settled_cumulative[i]
                /\ runner.net_liquidity_settled_cumulative[i]
                      = pre.runner.net_liquidity_settled_cumulative[i]
    /\ WritesSwapFees <= 3
    /\ Count("execute", -1) <= 2 /\ Count("swap01", -1) <= 1
    /\ runner.net_liquidity_swap_fees_cumulative
          = pre.runner.net_liquidity_swap_fees_cumulative
              + ArbFeeLiquidity * Count("execute", -1) + SwapFeeLiquidity * Count("swap01", -1)
    /\ WritesPositionFees <= 2
    /\ WritesPositionFees = 0 =>
          runner.net_liquidity_position_fees_cumulative
              = pre.runner.net_liquidity_position_fees_cumulative

C23_Witness ==
    /\ pc = "idle"
    /\ WritesSwapFees = 3
    /\ WritesPositionFees = 2
    /\ \E i \in Slots : WritesSettled(i) = 1

\* C24: time advancement precedes reads.  In every update after the first
\* the chain is advanced once, by this block's observation1 timestamp minus
\* the previous update's, before the first arbitrage and before any position
\* is read, and the runner then stores this block's observation1; the first
\* update advances nothing, so the time advanced in all is the timestamp of the
\* latest update minus that of the first.
C24_TimeAdvancement ==
    updates >= 1 =>
        /\ runner.last_univ3_observation1 = state.observation1
        /\ mined = state.observation1 - Timestamp(StartBlock + Step)
        /\ updates = 1 => Count("mine", -1) = 0
        /\ updates >= 2 =>
              /\ Count("mine", -1) = 1
              /\ log[1].op = "mine"
              /\ mined - (state.observation1 - pre.state.observation1)
                    = pre.state.observation1 - Timestamp(StartBlock + Step)

C24_Witness ==
    /\ updates = 3
    /\ pc = "open0"
    /\ mined = 2 * Step * SecondsPerBlock
    /\ log[1].op = "mine"
    /\ log[2].op = "arb_pools"

\* C25: settle-due on open.  Whenever slot i is opened in the update at
\* block number n, _blocks_settle[i] is n + blocks_held and _token_ids[i] the
\* token id just minted; two slots opened in the same update get the same
\* settle block.
C25_SettleDueOnOpen ==
    /\ \A i \in Slots :
          opened[i].done =>
              /\ runner.blocks_settle[i] = number + cfg.blocks_held
              /\ runner.token_ids[i] = opened[i].token_id
              /\ positions[opened[i].token_id].block = number
              /\ \A t \in 1..Len(positions) : t # opened[i].token_id =>
                    (positions[t].block < number \/ opened[1 - i].token_id = t)
    /\ (opened[0].done /\ opened[1].done) =>
          /\ runner.blocks_settle[0] = runner.blocks_settle[1]
          /\ opened[0].token_id # opened[1].token_id

C25_Witness ==
    /\ pc = "swaps"
    /\ updates >= 2
    /\ opened[0].done
    /\ opened[1].done
    /\ runner.blocks_settle[1] = number + cfg.blocks_held
    /\ pre.runner.blocks_settle[1] = number

\* r is the floor of num / den, for den > 0
IsFloor(r, num, den) == r * den <= num /\ num < (r + 1) * den

IsTrunc(r, num, den) == IF num >= 0 THEN IsFloor(r, num, den) ELSE IsFloor(-r, -num, den)

\* C27: margin mode.  The margin of every opened position is
\* trunc(size_desired / (leverage - 1)) when rel_margin_above_safe_min = 0 and
\* trunc(safeMarginMinimum * (1 + rel_margin_above_safe_min)) otherwise; in
\* the second mode the leverage does not enter.
C27_MarginMode ==
    \A t \in 1..Len(positions) :
        LET position == positions[t]
        IN  IF cfg.rel_margin_above_safe_min = 0
            THEN IsTrunc(position.margin, position.size * UNIT, cfg.leverage - UNIT)
            ELSE IsTrunc(position.margin,
                         SafeMarginMinimum(position.size)
                             * (UNIT + cfg.rel_margin_above_safe_min), UNIT)

C27_Witness ==
    /\ Len(positions) >= 2
    /\ cfg.rel_margin_above_safe_min > 0
    /\ cfg.leverage = UNIT + 1
    /\ positions[1].margin > 0
    /\ ~IsTrunc(positions[1].margin, positions[1].size * UNIT, cfg.leverage - UNIT)

\* the step is simulate_swaps run to its end with a positive amount1_in
SwapsWith(amount1_in) ==
    /\ pc = "swaps"
    /\ pc' = NextStep(pc)
    /\ amount1_in > 0

\* C29: round-trip fee swaps.  When amount1_in > 0, simulate_swaps makes
\* exactly two swaps in order, token1 -> token0 with input amount1_in, then
\* token0 -> token1 with the token0 output of the first as input, and adds the
\* pool liquidity after the second swap minus the pool liquidity read before
\* the first to _net_liquidity_swap_fees_cumulative.
C29_RoundTripFeeSwaps ==
    [][LET amount1_in == Amount1In(state, runner, pool.liquidity)
       IN SwapsWith(amount1_in) =>
              /\ log' = log \o << Entry("simulate_swaps", -1),
                                  SwapEntry("swap10", amount1_in),
                                  SwapEntry("swap01", Amount0Out(pool, amount1_in)) >>
              /\ runner'.net_liquidity_swap_fees_cumulative
                    = runner.net_liquidity_swap_fees_cumulative
                        + (pool'.liquidity - pool.liquidity)]_vars

C29_Witness ==
    /\ pc = "arb2"
    /\ Len(log) >= 2
    /\ log[Len(log) - 1].op = "swap10"
    /\ log[Len(log)].op = "swap01"
    /\ log[Len(log) - 1].amount > 0
    /\ log[Len(log)].amount > 0
    /\ log[Len(log)].amount < log[Len(log) - 1].amount
    /\ runner.net_liquidity_swap_fees_cumulative
          >= pre.runner.net_liquidity_swap_fees_cumulative + SwapFeeLiquidity

\* C30: opening respects the pool's liquidity invariant.  Under every
\* configuration the validators accept and in every reachable pool state, the
\* liquidity delta passed to get_mrglv1_size_from_liquidity_delta at an open
\* is strictly less than the pool liquidity read for that open, for slot 0
\* and for slot 1 opened after slot 0.
C30_DeltaBelowLiquidity ==
    \A i \in Slots :
        (pc = OpenStep(i) /\ SlotIsEmpty(runner.token_ids[i])) =>
            calculate_position_liquidity_deltas(pool, cfg.utilization, cfg.skew)[i + 1]
                < pool.liquidity

\* the open loop of the current update has run to its end
PastOpen == pc \in {"swaps", "arb2", "snapshot", "record"} \/ (pc = "idle" /\ updates >= 1)

\* slot i was empty after the resolve step of the current update
EmptyAfterResolve(i) ==
    pre.runner.token_ids[i] = -1 \/ Count("liquidate", i) + Count("burn", i) >= 1

\* C31: both slots are open after every completed update.  A slot that is
\* empty after the resolve step (never opened, or liquidated or settled in
\* this update) has mint called for it in the same update whatever its
\* liquidity delta, a delta of 0 included, so from the end of the open loop to
\* the next update _token_ids holds no -1.
C31_BothSlotsOpen ==
    PastOpen =>
        \A i \in Slots :
            /\ runner.token_ids[i] # -1
            /\ EmptyAfterResolve(i) <=> Count("mint", i) = 1
            /\ Count("mint", i) <= 1

C31_Witness ==
    /\ pc = "snapshot"
    /\ cfg.utilization = 0
    /\ \A i \in Slots :
          /\ runner.token_ids[i] \in 1..Len(positions)
          /\ positions[runner.token_ids[i]].liquidityLocked = 0
          /\ Count("mint", i) = 1

\* the resolve loop of the current update found slot i occupied by a safe
\* position whose settle block is not reached
Held(i) == seen[i].done /\ seen[i].safe /\ ~seen[i].due

\* C32: hold leaves the slot untouched.  For an occupied slot whose position
\* is safe and whose settle block is not reached, the update leaves the
\* slot's token id, settle block and liquidated and settled counts, sizes and
\* net liquidity as they were, and sends neither liquidate, burn nor mint for
\* the slot.
C32_HoldLeavesSlot ==
    \A i \in Slots :
        Held(i) =>
            /\ runner.token_ids[i] = pre.runner.token_ids[i]
            /\ runner.token_ids[i] = seen[i].token_id
            /\ positions[seen[i].token_id].status = "open"
            /\ runner.blocks_settle[i] = pre.runner.blocks_settle[i]
            /\ number < runner.blocks_settle[i]
            /\ runner.positions_liquidated_cumulative[i]
                  = pre.runner.positions_liquidated_cumulative[i]
            /\ runner.positions_settled_cumulative[i]
                  = pre.runner.positions_settled_cumulative[i]
            /\ runner.sizes_liquidated_cumulative[i] = pre.runner.sizes_liquidated_cumulative[i]
            /\ runner.sizes_settled_cumulative[i] = pre.runner.sizes_settled_cumulative[i]
            /\ runner.net_liquidity_liquidated_cumulative[i]
                  = pre.runner.net_liquidity_liquidated_cumulative[i]
            /\ runner.net_liquidity_settled_cumulative[i]
                  = pre.runner.net_liquidity_settled_cumulative[i]
            /\ Count("liquidate", i) + Count("burn", i) + Count("mint", i) = 0

C32_Witness ==
    /\ pc = "idle"
    /\ Held(0)
    /\ Count("hold", 0) = 1
    /\ number + 1 = runner.blocks_settle[0]
    /\ Count("liquidate", 1) = 1
    /\ Count("mint", 1) = 1

\* C33: direction of price impact.  For 0 <= liquidity_delta < liquidity,
\* sqrt_price_x96 > 0 and maintenance >= 0,
\* get_mrglv1_sqrt_price_x96_next_open returns a value <= sqrt_price_x96 when
\* zero_for_one and >= sqrt_price_x96 otherwise, and sqrt_price_x96 itself
\* when liquidity_delta = 0.
C33_PriceImpactDirection ==
    (/\ call.fn = "next_open"
     /\ 0 <= call.liquidity_delta
     /\ call.liquidity_delta < call.liquidity
     /\ call.sqrt_price_x96 > 0) =>
        /\ ~call.raised
        /\ call.zero_for_one => call.result[1] <= call.sqrt_price_x96
        /\ ~call.zero_for_one => call.result[1] >= call.sqrt_price_x96
        /\ (call.liquidity_delta = 0) => call.result[1] = call.sqrt_price_x96

C33_Witness ==
    /\ call.fn = "next_open"
    /\ call.liquidity = InitLiquidity
    /\ call.liquidity_delta > 0
    /\ call.maintenance = maintenance
    /\ ~call.zero_for_one
    /\ ~call.raised
    /\ call.result[1] > call.sqrt_price_x96
    /\ call.sqrt_price_x96 > 0

\* the pool as slot 0's mint of the current update left it
PoolAfterOpenZero ==
    PoolAfterOpen([ liquidity |-> opened[0].liquidity_before,
                    liquidityLocked |-> opened[0].total_liquidity - opened[0].liquidity_before,
                    sqrtPriceX96 |-> opened[0].sqrt_price_x96 ],
                  opened[0].liquidity_delta, TRUE)

\* C34: slot order in the open step.  When both slots are empty slot 0
\* (zeroForOne = true) is opened before slot 1 (zeroForOne = false), and slot
\* 1's liquidity delta and size are computed from the pool liquidity,
\* liquidityLocked and sqrt price read after slot 0's mint; slot 0 only holds
\* zeroForOne = true positions and slot 1 only zeroForOne = false ones.
C34_SlotOrder ==
    /\ (opened[0].done /\ opened[1].done) =>
          /\ \E j, k \in 1..Len(log) :
                /\ j < k
                /\ log[j].op = "mint" /\ log[j].slot = 0
                /\ log[k].op = "mint" /\ log[k].slot = 1
          /\ opened[1].token_id = opened[0].token_id + 1
          /\ opened[1].liquidity_before = PoolAfterOpenZero.liquidity
          /\ opened[1].total_liquidity
                = PoolAfterOpenZero.liquidity + PoolAfterOpenZero.liquidityLocked
          /\ opened[1].sqrt_price_x96 = PoolAfterOpenZero.sqrtPriceX96
          /\ opened[1].liquidity_delta
                = calculate_position_liquidity_deltas(PoolAfterOpenZero, cfg.utilization,
                                                      cfg.skew)[2]
          /\ opened[1].size
                = get_mrglv1_size_from_liquidity_delta(
                      PoolAfterOpenZero.liquidity, PoolAfterOpenZero.sqrtPriceX96,
                      opened[1].liquidity_delta, FALSE, maintenance)
    /\ \A i \in Slots :
          /\ runner.token_ids[i] \in 1..Len(positions) =>
                positions[runner.token_ids[i]].zeroForOne = (i = 0)
          /\ opened[i].done => positions[opened[i].token_id].zeroForOne = (i = 0)
          /\ seen[i].done => positions[seen[i].token_id].zeroForOne = (i = 0)

C34_Witness ==
    /\ pc = "swaps"
    /\ opened[0].done
    /\ opened[1].done
    /\ opened[0].liquidity_delta > 0
    /\ opened[1].liquidity_delta > 0
    /\ opened[1].liquidity_before < opened[0].liquidity_before
    /\ opened[1].sqrt_price_x96 # opened[0].sqrt_price_x96
    /\ opened[1].total_liquidity > opened[0].total_liquidity

\* C35: no time is advanced on the first update.  init_mocks_state leaves
\* _last_univ3_observation1 at its initial -1, so the first update_strategy
\* call of a run mines nothing and the time between the initialisation block
\* and the first updated block is not simulated; every later update mines.
C35_FirstUpdateMinesNothing ==
    /\ (pc = "idle" /\ updates = 0) => runner.last_univ3_observation1 = -1
    /\ updates = 1 =>
          /\ pre.runner.last_univ3_observation1 = -1
          /\ Count("mine", -1) = 0
          /\ mined = 0
          /\ state.observation1 > StartState.observation1
    /\ updates >= 2 =>
          /\ pre.runner.last_univ3_observation1 # -1
          /\ Count("mine", -1) = 1
          /\ mined > 0

C35_Witness ==
    /\ updates = 1
    /\ pc = "record"
    /\ mined = 0
    /\ state.observation1 - StartState.observation1 = Step * SecondsPerBlock
    /\ runner.last_univ3_observation1 = state.observation1

=============================================================================
